---- MODULE Spec2Model ----
(***************************************************************************)
(* A model of src/model.py: the EMA vector quantizer (VQEmbeddingEMA) and  *)
(* the contrastive predictive coding loss (CPCLoss).                       *)
(*                                                                         *)
(* Tensors are functions over 0-based index ranges.  Real numbers are      *)
(* exact rationals <<numerator, denominator>> in lowest terms, so every    *)
(* statement below is about the arithmetic the code asks for, without      *)
(* floating-point rounding.  The result of a division by zero (inf or nan  *)
(* in torch) is the single absorbing value NonFinite.                      *)
(***************************************************************************)
EXTENDS Integers, Sequences, FiniteSets, TLC

VARIABLES
    \* VQEmbeddingEMA: constructor arguments and registered buffers
    decay, epsilon, embedding, ema_count, ema_weight, training,
    \* VQEmbeddingEMA.forward: the last call (argument, start state, result)
    vq_op, vq_x, vq_prev, vq_out, vq_calls,
    \* CPCLoss: the cached causal mask (self.mask)
    mask,
    \* CPCLoss.forward: position in the call, its locals, its result
    cpc_pc, call, loop_k, step, accuracies, cpc_result, cpc_calls

vqvars == <<decay, epsilon, embedding, ema_count, ema_weight, training,
            vq_op, vq_x, vq_prev, vq_out, vq_calls>>

cpcvars == <<mask, cpc_pc, call, loop_k, step, accuracies, cpc_result, cpc_calls>>

vars == <<vqvars, cpcvars>>

(***************************************************************************)
(* Bounds                                                                  *)
(***************************************************************************)
\* latent_dim (N in forward): number of independent codebook groups
LatentDim == 2
\* num_embeddings (M): codes per group
NumEmbeddings == 2
\* embedding_dim (D): dimension of one code
EmbeddingDim == 2
\* forward calls per behaviour
MaxVQCalls == 3
\* forward is called only while no numerator or denominator held in the buffers
\* exceeds this: the products of one more call then fit the checker's integers
MaxMagnitude == 100
\* n_speakers, n_utterances_per_speaker, n_prediction_steps, n_negatives, z_dim
NSpeakers == 2
NUtterances == 2
NPredictionSteps == 2
NNegatives == 2
ZDim == 2
\* largest window length T - n_prediction_steps of an argument of CPCLoss.forward
MaxLength == 3
\* CPCLoss.forward calls per behaviour
MaxCPCCalls == 2

\* A tensor value computed once: TLC evaluates a function expression entry by
\* entry on every use unless it has been compared, which evaluates it in full.
Materialized(t) == IF t = t THEN t ELSE t

(***************************************************************************)
(* Exact rational arithmetic                                               *)
(***************************************************************************)
Abs(a) == IF a < 0 THEN -a ELSE a

RECURSIVE GCD(_, _)
GCD(a, b) == IF b = 0 THEN a ELSE GCD(b, a % b)

NonFinite == <<0, 0>>

IsFinite(a) == a[2] # 0

Rat(n, d) ==
    IF d = 0 THEN NonFinite
    ELSE LET g == GCD(Abs(n), Abs(d))
             s == IF d < 0 THEN -1 ELSE 1
         IN <<(s * n) \div g, (s * d) \div g>>

RInt(i) == <<i, 1>>

RAdd(a, b) ==
    IF ~IsFinite(a) \/ ~IsFinite(b) THEN NonFinite
    ELSE LET g == GCD(a[2], b[2])
         IN Rat(a[1] * (b[2] \div g) + b[1] * (a[2] \div g), (a[2] \div g) * b[2])

RNeg(a) == <<-a[1], a[2]>>

RSub(a, b) == RAdd(a, RNeg(b))

RMul(a, b) ==
    IF ~IsFinite(a) \/ ~IsFinite(b) THEN NonFinite
    ELSE LET g1 == GCD(Abs(a[1]), b[2])
             g2 == GCD(Abs(b[1]), a[2])
         IN Rat((a[1] \div g1) * (b[1] \div g2), (a[2] \div g2) * (b[2] \div g1))

RDiv(a, b) ==
    IF ~IsFinite(a) \/ ~IsFinite(b) \/ b[1] = 0 THEN NonFinite
    ELSE RMul(a, IF b[1] < 0 THEN <<-b[2], -b[1]>> ELSE <<b[2], b[1]>>)

\* a < b for finite a, b
RLess(a, b) ==
    /\ IsFinite(a)
    /\ IsFinite(b)
    /\ LET g == GCD(a[2], b[2])
       IN a[1] * (b[2] \div g) < b[1] * (a[2] \div g)

Magnitude(a) == IF Abs(a[1]) > a[2] THEN Abs(a[1]) ELSE a[2]

\* f[0] + ... + f[k-1]
RECURSIVE RSum(_, _)
RSum(f, k) == IF k = 0 THEN RInt(0) ELSE RAdd(RSum(f, k - 1), f[k - 1])

(***************************************************************************)
(* VQEmbeddingEMA                                                          *)
(***************************************************************************)
Groups == 0 .. LatentDim - 1
Codes == 0 .. NumEmbeddings - 1
Dims == 0 .. EmbeddingDim - 1

\* One tensor entry of a generated family: a value in {-1, 0, 1}
Pattern(p, i, j, k) == ((p[1] * i + p[2] * j + p[3] * k + p[4]) % 3) - 1

\* The generators of the input tensors and of the initial codebooks
XParams == {<<0, 1, 0, 0>>, <<1, 2, 1, 2>>, <<0, 0, 0, 1>>}
EmbParams == {<<0, 0, 0, 1>>, <<1, 1, 1, 0>>, <<0, 2, 1, 0>>}
\* The shapes (B, L) of the input tensors
Shapes == {<<1, 1>>, <<2, 2>>}

\* An argument x of forward: a (B, C, L) tensor
XTensor(B, C, L, p) ==
    [B |-> B, C |-> C, L |-> L,
     data |-> [b \in 0 .. B - 1 |-> [c \in 0 .. C - 1 |-> [l \in 0 .. L - 1 |->
                  RInt(Pattern(p, b, c, l))]]]]

\* Arguments with C = N * D, and arguments that break the shape contract
ValidInputs ==
    {XTensor(sh[1], LatentDim * EmbeddingDim, sh[2], p) : sh \in Shapes, p \in XParams}
BadInputs ==
    {XTensor(1, LatentDim * EmbeddingDim + 1, 1, p) : p \in {<<0, 1, 0, 0>>}}

\* __init__: embedding.uniform_(-1 / num_embeddings, 1 / num_embeddings)
InitEmbedding(p) ==
    [g \in Groups |-> [m \in Codes |-> [d \in Dims |->
        Rat(Pattern(p, g, m, d), 2 * NumEmbeddings)]]]

\* x.view(B, N, D, L).permute(1, 0, 3, 2), then .reshape(N, -1, D)
XFlat(x) ==
    [g \in Groups |-> [i \in 0 .. x.B * x.L - 1 |-> [d \in Dims |->
        x.data[i \div x.L][g * EmbeddingDim + d][i % x.L]]]]

\* Squared Euclidean distance of a vector v to a code e.  torch.cdist returns
\* its square root; the square root is strictly increasing, so argmin is the same.
RECURSIVE SqDist(_, _, _)
SqDist(v, e, k) ==
    IF k = 0 THEN RInt(0)
    ELSE LET diff == RSub(v[k - 1], e[k - 1])
         IN RAdd(SqDist(v, e, k - 1), RMul(diff, diff))

\* torch.cdist(x_flat, self.embedding), squared
Distances(emb, xf) ==
    [g \in Groups |-> [i \in DOMAIN xf[g] |-> [m \in Codes |->
        SqDist(xf[g][i], emb[g][m], EmbeddingDim)]]]

\* torch.argmin over the last axis: the first index of a minimal value
RECURSIVE ArgMinUpTo(_, _)
ArgMinUpTo(dist, m) ==
    IF m = 0 THEN 0
    ELSE LET b == ArgMinUpTo(dist, m - 1)
         IN IF RLess(dist[m], dist[b]) THEN m ELSE b

RECURSIVE ArgMinLastUpTo(_, _)
ArgMinLastUpTo(dist, m) ==
    IF m = 0 THEN 0
    ELSE LET b == ArgMinLastUpTo(dist, m - 1)
         IN IF RLess(dist[b], dist[m]) THEN b ELSE m

\* the same scan keeping the last minimal index
ArgMinLast(dist) == ArgMinLastUpTo(dist, NumEmbeddings - 1)

ArgMin(dist) == ArgMinUpTo(dist, NumEmbeddings - 1)

Indices(emb, xf) ==
    LET dist == Materialized(Distances(emb, xf))
    IN [g \in Groups |-> [i \in DOMAIN xf[g] |-> ArgMin(dist[g][i])]]

\* F.one_hot(indices, M).float()
Encodings(idx) ==
    [g \in Groups |-> [i \in DOMAIN idx[g] |-> [m \in Codes |->
        IF idx[g][i] = m THEN RInt(1) ELSE RInt(0)]]]

\* torch.gather(self.embedding, 1, indices...)
Gather(emb, idx) ==
    [g \in Groups |-> [i \in DOMAIN idx[g] |-> emb[g][idx[g][i]]]]

\* quantized = x + (quantized - x).detach()
StraightThrough(xf, q) ==
    [g \in Groups |-> [i \in DOMAIN xf[g] |-> [d \in Dims |->
        RAdd(xf[g][i][d], RSub(q[g][i][d], xf[g][i][d]))]]]

\* quantized.permute(1, 0, 3, 2).reshape(B, C, L)
Unflatten(q, B, L) ==
    [b \in 0 .. B - 1 |-> [c \in 0 .. LatentDim * EmbeddingDim - 1 |->
        [l \in 0 .. L - 1 |-> q[c \div EmbeddingDim][b * L + l][c % EmbeddingDim]]]]

\* The first value forward returns, for the codebook emb and the argument x
Quantized(emb, x) ==
    LET xf == Materialized(XFlat(x))
        idx == Materialized(Indices(emb, xf))
    IN [B |-> x.B, C |-> x.C, L |-> x.L,
        data |-> Unflatten(StraightThrough(xf, Gather(emb, idx)), x.B, x.L)]

\* torch.sum(encodings, dim=1)
EncodingSums(enc) ==
    [g \in Groups |-> [m \in Codes |->
        RSum([i \in DOMAIN enc[g] |-> enc[g][i][m]], Cardinality(DOMAIN enc[g]))]]

\* self.decay * old + (1 - self.decay) * new
Ema(old, new) ==
    RAdd(RMul(decay, old), RMul(RSub(RInt(1), decay), new))

\* n = torch.sum(self.ema_count, dim=-1, keepdim=True)
GroupTotal(cnt) == [g \in Groups |-> RSum(cnt[g], NumEmbeddings)]

\* the renormalization without the smoothing term epsilon
LaplaceNoEpsilon(cnt) ==
    LET n == Materialized(GroupTotal(cnt))
    IN [g \in Groups |-> [m \in Codes |-> RMul(RDiv(cnt[g][m], n[g]), n[g])]]

\* the smoothing without the rescaling by n
LaplaceNoRescale(cnt) ==
    LET n == Materialized(GroupTotal(cnt))
    IN [g \in Groups |-> [m \in Codes |->
           RDiv(RAdd(cnt[g][m], epsilon),
                RAdd(n[g], RMul(RInt(NumEmbeddings), epsilon)))]]

\* (self.ema_count + self.epsilon) / (n + M * self.epsilon) * n
Laplace(cnt) ==
    LET n == Materialized(GroupTotal(cnt))
    IN [g \in Groups |-> [m \in Codes |->
           RMul(RDiv(RAdd(cnt[g][m], epsilon),
                     RAdd(n[g], RMul(RInt(NumEmbeddings), epsilon))),
                n[g])]]

\* dw = torch.bmm(encodings.transpose(1, 2), x_flat)
Dw(enc, xf) ==
    [g \in Groups |-> [m \in Codes |-> [d \in Dims |->
        RSum([i \in DOMAIN xf[g] |-> RMul(enc[g][i][m], xf[g][i][d])],
             Cardinality(DOMAIN xf[g]))]]]

\* the division applied to the weights held before the call
StaleEmbedding(weight, cnt) ==
    [g \in Groups |-> [m \in Codes |-> [d \in Dims |->
        RDiv(ema_weight[g][m][d], cnt[g][m])]]]

\* self.ema_weight / self.ema_count.unsqueeze(-1)
NewEmbedding(weight, cnt) ==
    [g \in Groups |-> [m \in Codes |-> [d \in Dims |->
        RDiv(weight[g][m][d], cnt[g][m])]]]

\* an update that ignores the mode
UpdateAlways == TRUE

\* if self.training:
UpdateEnabled == training

\* The buffers as they stand
Buffers == [embedding |-> embedding, ema_count |-> ema_count, ema_weight |-> ema_weight]

BuffersWithin(bound) ==
    \A g \in Groups, m \in Codes :
        /\ Magnitude(ema_count[g][m]) <= bound
        /\ \A d \in Dims : /\ Magnitude(embedding[g][m][d]) <= bound
                            /\ Magnitude(ema_weight[g][m][d]) <= bound

\* __init__(latent_dim, num_embeddings, embedding_dim, decay, epsilon): decay and
\* epsilon are constructor arguments, drawn here from small exact rationals in
\* (0, 1) (the defaults 0.999 and 1e-5 do not fit the checker's integers); the
\* codebook is one of the uniform_ draws, ema_weight its clone, ema_count zeros
InitVQ ==
    /\ decay \in {<<1, 2>>, <<3, 4>>}
    /\ epsilon \in {<<1, 4>>}
    /\ \E p \in EmbParams :
        /\ embedding = InitEmbedding(p)
        /\ ema_weight = InitEmbedding(p)
    /\ ema_count = [g \in Groups |-> [m \in Codes |-> RInt(0)]]
    /\ training = TRUE
    /\ vq_op = "init"
    /\ vq_x = "none"
    /\ vq_prev = "none"
    /\ vq_out = "none"
    /\ vq_calls = 0

\* nn.Module.train(mode): sets self.training
SetTraining(mode) ==
    /\ training # mode
    /\ training' = mode
    /\ vq_op' = "set_training"
    /\ UNCHANGED <<decay, epsilon, embedding, ema_count, ema_weight,
                   vq_x, vq_prev, vq_out, vq_calls>>
    /\ UNCHANGED cpcvars

\* forward(x) with C # N * D: the assert raises
VQForwardAssertFails(x) ==
    /\ vq_calls < MaxVQCalls
    /\ x.C # LatentDim * EmbeddingDim
    /\ vq_calls' = vq_calls + 1
    /\ vq_op' = "forward_raised"
    /\ vq_x' = x
    /\ vq_prev' = Buffers
    /\ vq_out' = "none"
    /\ UNCHANGED <<decay, epsilon, embedding, ema_count, ema_weight, training>>
    /\ UNCHANGED cpcvars

\* forward(x) with C = N * D: the buffers it leaves and the tensor it returns
ForwardResult(x) ==
    LET xf == Materialized(XFlat(x))
        idx == Materialized(Indices(embedding, xf))
        enc == Materialized(Encodings(idx))
        quantized == Materialized(Gather(embedding, idx))
        sums == Materialized(EncodingSums(enc))
        count1 == Materialized(
            [g \in Groups |-> [m \in Codes |-> Ema(ema_count[g][m], sums[g][m])]])
        count2 == Materialized(Laplace(count1))
        dw == Materialized(Dw(enc, xf))
        weight == Materialized([g \in Groups |-> [m \in Codes |-> [d \in Dims |->
                      Ema(ema_weight[g][m][d], dw[g][m][d])]]])
        out == [B |-> x.B, C |-> x.C, L |-> x.L,
                data |-> Unflatten(StraightThrough(xf, quantized), x.B, x.L)]
    IN IF UpdateEnabled
       THEN [ema_count |-> count2, ema_weight |-> weight,
             embedding |-> NewEmbedding(weight, count2), out |-> out]
       ELSE [ema_count |-> ema_count, ema_weight |-> ema_weight,
             embedding |-> embedding, out |-> out]

VQForward(x) ==
    /\ vq_calls < MaxVQCalls
    /\ x.C = LatentDim * EmbeddingDim
    /\ BuffersWithin(MaxMagnitude)
    /\ vq_calls' = vq_calls + 1
    /\ vq_op' = "forward"
    /\ vq_x' = x
    /\ vq_prev' = Buffers
    /\ \E r \in {ForwardResult(x)} :
        /\ ema_count' = r.ema_count
        /\ ema_weight' = r.ema_weight
        /\ embedding' = r.embedding
        /\ vq_out' = r.out
    /\ UNCHANGED <<decay, epsilon, training>>
    /\ UNCHANGED cpcvars

NextVQ ==
    \/ \E mode \in BOOLEAN : SetTraining(mode)
    \/ \E x \in BadInputs : VQForwardAssertFails(x)
    \/ \E x \in ValidInputs : VQForward(x)

(***************************************************************************)
(* CPCLoss                                                                 *)
(***************************************************************************)
Speakers == 0 .. NSpeakers - 1
Utterances == 0 .. NUtterances - 1
Negatives == 0 .. NNegatives - 1
ZDims == 0 .. ZDim - 1
\* the batch rows, speaker-major: row s * n_utterances_per_speaker + u
Rows == 0 .. NSpeakers * NUtterances - 1

\* torch.triu(torch.ones(sz, sz)) == 1
Triu(sz) == [i \in 0 .. sz - 1 |-> [j \in 0 .. sz - 1 |-> j >= i]]

\* .transpose(0, 1)
Transpose(m) == [i \in DOMAIN m |-> [j \in DOMAIN m |-> m[j][i]]]

\* the value None of self.mask
None == [is_none |-> TRUE]

\* generate_square_subsequent_mask(sz, device)
GenerateSquareSubsequentMask(sz) ==
    LET m == Materialized(Transpose(Triu(sz)))
    IN [is_none |-> FALSE, size |-> sz,
        entries |-> [i \in 0 .. sz - 1 |-> [j \in 0 .. sz - 1 |->
                        IF m[i][j] THEN "0.0" ELSE "-inf"]]]

\* the size of a cached mask
MaskSize(m) == m.size

\* The generators of the latent tensors z, of the predictor outputs and of the
\* random draws
ZParams == {<<1, 1, 1, 0, 0>>, <<1, 2, 0, 1, 1>>, <<0, 1, 1, 2, 1>>}
WParams == {<<1, 1, 1, 0>>, <<0, 1, 2, 1>>}
BatchParams == {<<0, 0, 0>>, <<1, 1, 0>>}
SeqParams == {<<0, 0, 0, 0>>, <<1, 0, 1, 0>>, <<0, 1, 1, 1>>}

\* An argument z of forward: (n_speakers * n_utterances_per_speaker, T, z_dim);
\* with p[5] = 1 every entry also tells its speaker
ZArgument(T, p) ==
    [r \in Rows |-> [t \in 0 .. T - 1 |-> [d \in ZDims |->
        Pattern(p, r, t, d) + 3 * p[5] * (r \div NUtterances)]]]

\* z.reshape(n_speakers, n_utterances_per_speaker, -1, z_dim)
Reshape4(flat) ==
    [s \in Speakers |-> [u \in Utterances |-> flat[s * NUtterances + u]]]

\* z.size(1) - self.n_prediction_steps
Length(T) == T - NPredictionSteps

\* the length of c[:, :-self.n_prediction_steps, :]
ContextLength(T) == IF T > NPredictionSteps THEN T - NPredictionSteps ELSE 0

\* self.predictors[k-1](c, src_mask=self.mask).transpose(1, 0): an output the
\* learned layer may produce, (rows, length, z_dim)
PredictorOutput(p, len) ==
    [r \in Rows |-> [t \in 0 .. len - 1 |-> [d \in ZDims |-> Pattern(p, r, t, d)]]]

\* torch.randint(0, self.n_utterances_per_speaker, size=(U, n_negatives))
BatchIndex(p) ==
    [u \in Utterances |-> [j \in Negatives |->
        (p[1] * u + p[2] * j + p[3]) % NUtterances]]

\* a draw whose lower end is 0
RandintSeqFromZero(p, len) ==
    [s \in Speakers |-> [u \in Utterances |-> [j \in Negatives |->
        [t \in 0 .. len - 1 |->
            (p[1] * (s * NUtterances + u) + p[2] * j + p[3] * t + p[4]) % len]]]]

\* torch.randint(1, length, size=(S, U, n_negatives, length))
RandintSeq(p, len) ==
    [s \in Speakers |-> [u \in Utterances |-> [j \in Negatives |->
        [t \in 0 .. len - 1 |->
            1 + ((p[1] * (s * NUtterances + u) + p[2] * j + p[3] * t + p[4]) % (len - 1))]]]]

\* seq_index += torch.arange(length); seq_index = torch.remainder(seq_index, length)
SeqIndex(offsets, len) ==
    [s \in Speakers |-> [u \in Utterances |-> [j \in Negatives |->
        [t \in 0 .. len - 1 |-> (offsets[s][u][j][t] + t) % len]]]]

\* an index that sends every speaker to speaker 0
SpeakerIndexZero == [s \in Speakers |-> 0]

\* torch.arange(self.n_speakers).view(-1, 1, 1, 1)
SpeakerIndex == [s \in Speakers |-> s]

\* The coordinates z_shift[speaker_index, batch_index, seq_index, :] reads, with
\* the three index tensors broadcast to (S, U, n_negatives, length)
IndexCoordinates(batch_index, seq_index, len) ==
    [s \in Speakers |-> [u \in Utterances |-> [j \in Negatives |->
        [t \in 0 .. len - 1 |->
            <<SpeakerIndex[s], batch_index[u][j], seq_index[s][u][j][t]>>]]]]

\* z[:, :, k:length + k, :]
ZShift(z, kk, len) ==
    [s \in Speakers |-> [u \in Utterances |-> [t \in 0 .. len - 1 |-> z[s][u][t + kk]]]]

\* the negatives ahead of the true target
CatNegativesFirst(z_shift, z_negatives, len) ==
    [s \in Speakers |-> [u \in Utterances |-> [cand \in 0 .. NNegatives |->
        [t \in 0 .. len - 1 |->
            IF cand = NNegatives THEN z_shift[s][u][t]
            ELSE z_negatives[s][u][cand][t]]]]]

\* torch.cat((z_shift.unsqueeze(2), z_negatives), dim=2)
Cat(z_shift, z_negatives, len) ==
    [s \in Speakers |-> [u \in Utterances |-> [cand \in 0 .. NNegatives |->
        [t \in 0 .. len - 1 |->
            IF cand = 0 THEN z_shift[s][u][t]
            ELSE z_negatives[s][u][cand - 1][t]]]]]

\* the sum over the last axis of v * w
RECURSIVE Dot(_, _, _)
Dot(v, w, n) == IF n = 0 THEN 0 ELSE Dot(v, w, n - 1) + v[n - 1] * w[n - 1]

\* torch.sum(zs * Wc.unsqueeze(2) / math.sqrt(self.z_dim), dim=-1), then
\* f.view(S * U, n_negatives + 1, -1).  An entry is held as the integer
\* sqrt(z_dim) * score: the factor 1 / sqrt(z_dim) is positive and the same for
\* every candidate, so the order of the scores is the order of these integers.
Scores(zs, Wc, len) ==
    [r \in Rows |-> [cand \in 0 .. NNegatives |-> [t \in 0 .. len - 1 |->
        Dot(zs[r \div NUtterances][r % NUtterances][cand][t],
            Wc[r \div NUtterances][r % NUtterances][t], ZDim)]]]

\* f.argmax(dim=1): the first index of a maximal score among candidates 0 .. c
RECURSIVE ArgMaxUpTo(_, _, _)
ArgMaxUpTo(fr, t, c) ==
    IF c = 0 THEN 0
    ELSE LET b == ArgMaxUpTo(fr, t, c - 1)
         IN IF fr[c][t] > fr[b][t] THEN c ELSE b

\* torch.zeros(S * U, length, dtype=int)
Labels(len) == [r \in Rows |-> [t \in 0 .. len - 1 |-> 0]]

\* the number of TRUE entries of a (rows, length) tensor
RECURSIVE CountTrue(_, _, _)
CountTrue(acc, len, n) ==
    IF n = 0 THEN 0
    ELSE CountTrue(acc, len, n - 1)
         + (IF acc[(n - 1) \div len][(n - 1) % len] THEN 1 ELSE 0)

\* One pass of the loop body for horizon kk that raises nothing
StepResult(z, kk, len, wp, bp, sp) ==
    LET z_shift == Materialized(ZShift(z, kk, len))
        Wc == Materialized(Reshape4(PredictorOutput(wp, len)))
        batch_index == Materialized(BatchIndex(bp))
        seq_index == Materialized(SeqIndex(RandintSeq(sp, len), len))
        coords == Materialized(IndexCoordinates(batch_index, seq_index, len))
        z_negatives == Materialized(
            [s \in Speakers |-> [u \in Utterances |-> [j \in Negatives |->
                [t \in 0 .. len - 1 |->
                    z_shift[coords[s][u][j][t][1]][coords[s][u][j][t][2]]
                           [coords[s][u][j][t][3]]]]]])
        zs == Materialized(Cat(z_shift, z_negatives, len))
        f == Materialized(Scores(zs, Wc, len))
        labels == Labels(len)
        accuracy == Materialized([r \in Rows |-> [t \in 0 .. len - 1 |->
                        ArgMaxUpTo(f[r], t, NNegatives) = labels[r][t]]])
    IN [raised |-> FALSE, k |-> kk, mask_arg |-> mask, Wc |-> Wc,
        batch_index |-> batch_index, seq_index |-> seq_index,
        coords |-> coords, z_negatives |-> z_negatives, f |-> f,
        labels |-> labels, accuracy |-> accuracy,
        mean |-> Rat(CountTrue(accuracy, len, NSpeakers * NUtterances * len),
                     NSpeakers * NUtterances * len)]

\* A pass that raises: the predictor was handed self.mask and nothing else was computed
RaisedStep(kk) == [raised |-> TRUE, k |-> kk, mask_arg |-> mask]

\* no call of forward has begun / no pass of the loop body has run
NoCall == [T |-> 0]
NoStep == [raised |-> FALSE, k |-> 0]

InitCPC ==
    /\ mask = None
    /\ cpc_pc = "idle"
    /\ call = NoCall
    /\ loop_k = 0
    /\ step = NoStep
    /\ accuracies = <<>>
    /\ cpc_result = "none"
    /\ cpc_calls = 0

\* forward(z, c), lines 178-191, for z and c of T frames
CPCForwardBegin(T, zp) ==
    /\ cpc_pc = "idle"
    /\ cpc_calls < MaxCPCCalls
    /\ cpc_calls' = cpc_calls + 1
    /\ call' = [T |-> T, length |-> Length(T), c_len |-> ContextLength(T),
                z |-> Reshape4(ZArgument(T, zp)), mask_before |-> mask]
    /\ mask' = IF mask.is_none THEN GenerateSquareSubsequentMask(ContextLength(T))
               ELSE mask
    /\ loop_k' = 1
    /\ step' = NoStep
    /\ accuracies' = <<>>
    /\ cpc_result' = "none"
    /\ cpc_pc' = "loop"
    /\ UNCHANGED vqvars

\* True when the attention layer rejects the mask: a 2-D attn_mask must be
\* (length of c) x (length of c)
PredictorRaises == MaskSize(mask) # call.c_len

\* True when torch.randint(1, length, ...) raises: it needs 1 < length
RandintRaises == call.length <= 1

\* One pass of the loop body, lines 193-253, for horizon loop_k (the loop variable k)
CPCForwardStep ==
    /\ cpc_pc = "loop"
    /\ loop_k <= NPredictionSteps
    /\ IF PredictorRaises \/ RandintRaises
       THEN /\ step' = RaisedStep(loop_k)
            /\ cpc_result' = "raised"
            /\ cpc_pc' = "idle"
            /\ UNCHANGED <<loop_k, accuracies>>
       ELSE /\ \E wp \in WParams, bp \in BatchParams, sp \in SeqParams :
                \E r \in {StepResult(call.z, loop_k, call.length, wp, bp, sp)} :
                    /\ step' = r
                    /\ accuracies' = Append(accuracies, r.mean)
            /\ loop_k' = loop_k + 1
            /\ UNCHANGED <<cpc_result, cpc_pc>>
    /\ UNCHANGED <<mask, call, cpc_calls>>
    /\ UNCHANGED vqvars

\* lines 255-256: the loop is over, forward returns the loss and the accuracies
CPCForwardReturn ==
    /\ cpc_pc = "loop"
    /\ loop_k > NPredictionSteps
    /\ cpc_result' = "returned"
    /\ cpc_pc' = "idle"
    /\ step' = NoStep
    /\ UNCHANGED <<mask, call, loop_k, accuracies, cpc_calls>>
    /\ UNCHANGED vqvars

NextCPC ==
    \/ \E T \in 1 .. NPredictionSteps + MaxLength, zp \in ZParams : CPCForwardBegin(T, zp)
    \/ CPCForwardStep
    \/ CPCForwardReturn

(***************************************************************************)
(* Specifications: the quantizer alone, and the loss alone                 *)
(***************************************************************************)
\* both objects as constructed
Init == InitVQ /\ InitCPC

\* both objects as constructed, the quantizer with one fixed decay and codebook
InitFixedVQ == Init /\ decay = <<1, 2>> /\ embedding = InitEmbedding(<<0, 0, 0, 1>>)

SpecVQ == Init /\ [][NextVQ]_vars

SpecCPC == InitFixedVQ /\ [][NextCPC]_vars

(***************************************************************************)
(* Properties of VQEmbeddingEMA                                            *)
(***************************************************************************)
\* The state right after a forward call that returned, made in training mode
\* (forward leaves self.training alone) or in evaluation mode
AfterTrainingForward == vq_op = "forward" /\ training
AfterEvalForward == vq_op = "forward" /\ ~training

\* The vector of group g at batch item b and position l of a (B, C, L) tensor
GroupVector(t, g, b, l) == [d \in Dims |-> t.data[b][g * EmbeddingDim + d][l]]

\* m is the lowest index among the codes of book nearest to v
IsNearestCode(book, v, m) ==
    \A m2 \in Codes :
        /\ ~RLess(SqDist(v, book[m2], EmbeddingDim), SqDist(v, book[m], EmbeddingDim))
        /\ m2 < m => RLess(SqDist(v, book[m], EmbeddingDim),
                           SqDist(v, book[m2], EmbeddingDim))

\* C3: after every forward call, in either mode, each group vector of the returned
\* tensor is the code, of the codebook as it stood when the call started, nearest
\* to the corresponding input vector (the lowest index among ties); and quantizing
\* the returned tensor against that codebook returns it unchanged.
C3_QuantizedIsNearestCode ==
    vq_op = "forward" =>
        /\ vq_out.B = vq_x.B /\ vq_out.C = vq_x.C /\ vq_out.L = vq_x.L
        /\ \A g \in Groups, b \in 0 .. vq_x.B - 1, l \in 0 .. vq_x.L - 1 :
            \E m \in Codes :
                /\ IsNearestCode(vq_prev.embedding[g], GroupVector(vq_x, g, b, l), m)
                /\ GroupVector(vq_out, g, b, l) = vq_prev.embedding[g][m]
        /\ Quantized(vq_prev.embedding, vq_out).data = vq_out.data

\* C3 witness: a call in which an input vector is equally near two different codes
C3_Witness ==
    /\ vq_op = "forward"
    /\ \E g \in Groups, b \in 0 .. vq_x.B - 1, l \in 0 .. vq_x.L - 1, m \in Codes :
        LET v == GroupVector(vq_x, g, b, l)
            book == vq_prev.embedding[g]
        IN /\ IsNearestCode(book, v, m)
           /\ \E m2 \in Codes :
               /\ book[m2] # book[m]
               /\ SqDist(v, book[m2], EmbeddingDim) = SqDist(v, book[m], EmbeddingDim)

\* the number of vectors per group of the last argument, B * L
NumVectors == vq_x.B * vq_x.L

\* C4 as stated: after a training-mode call the total count of every group equals
\* the total the group held before the call.
C4_TotalEqualsTotalBeforeCall ==
    AfterTrainingForward =>
        \A g \in Groups : GroupTotal(ema_count)[g] = GroupTotal(vq_prev.ema_count)[g]

\* C4 amended: after a training-mode call the total count of every group equals the
\* total after the moving-average step and before the smoothing,
\* decay * (total before the call) + (1 - decay) * B * L.
C4_TotalEqualsEmaTotal ==
    AfterTrainingForward =>
        \A g \in Groups :
            GroupTotal(ema_count)[g]
                = Ema(GroupTotal(vq_prev.ema_count)[g], RInt(NumVectors))

\* C4 witness: a training-mode call made when the counts were no longer the initial zeros
C4_Witness ==
    /\ AfterTrainingForward
    /\ \E g \in Groups : GroupTotal(vq_prev.ema_count)[g] # RInt(0)

\* C5: right after every training-mode call, embedding = ema_weight / ema_count.
C5_CodebookIsWeightOverCount ==
    AfterTrainingForward =>
        \A g \in Groups, m \in Codes, d \in Dims :
            /\ IsFinite(embedding[g][m][d])
            /\ RMul(embedding[g][m][d], ema_count[g][m]) = ema_weight[g][m][d]

\* C5 witness: a third or later call, made in training mode on buffers that an
\* earlier training-mode call had already filled, that changed the weights
C5_Witness ==
    /\ AfterTrainingForward
    /\ vq_calls >= 3
    /\ vq_prev.ema_weight # ema_weight
    /\ \E g \in Groups : GroupTotal(vq_prev.ema_count)[g] # RInt(0)

\* C6: after every training-mode call every usage count is strictly positive.
C6_UsageCountsPositive ==
    AfterTrainingForward =>
        \A g \in Groups, m \in Codes : RLess(RInt(0), ema_count[g][m])

\* C6 witness: the first call, in training mode, with a code that no vector selected:
\* its count is the smoothing share epsilon * n / (n + M * epsilon) alone
C6_Witness ==
    /\ AfterTrainingForward
    /\ vq_calls = 1
    /\ \E g \in Groups, m \in Codes :
        LET n == GroupTotal(ema_count)[g]
        IN /\ RLess(RInt(0), n)
           /\ RMul(ema_count[g][m], RAdd(n, RMul(RInt(NumEmbeddings), epsilon)))
                = RMul(epsilon, n)

\* C7: a step changes embedding, ema_count or ema_weight only if it is a forward
\* call made in training mode; a forward call in evaluation mode leaves all three.
C7_BuffersChangeOnlyInTraining ==
    [][Buffers' # Buffers => (training /\ vq_op' = "forward")]_vars

\* C7 witness: an evaluation-mode call on a module whose buffers are not the
\* initial ones, with an input it quantizes to something else than the input
C7_Witness ==
    /\ AfterEvalForward
    /\ \E g \in Groups : GroupTotal(ema_count)[g] # RInt(0)
    /\ vq_out.data # vq_x.data

TypeVQ ==
    /\ \A g \in Groups, m \in Codes :
        /\ IsFinite(ema_count[g][m])
        /\ \A d \in Dims : IsFinite(embedding[g][m][d]) /\ IsFinite(ema_weight[g][m][d])

(***************************************************************************)
(* CPCLoss.forward: properties                                             *)
(***************************************************************************)
\* a pass of the loop body has run to its end and its locals are on record
StepDone == step.k > 0 /\ ~step.raised

\* the time positions of the current call's window
Window == 0 .. call.length - 1

\* C1: for every horizon and every (speaker, utterance, negative slot, time t)
\* with window length L >= 2, the sampled negative time index lies in 0 .. L-1
\* and is never the true time index t.
C1_NegativeTimeIsNotTrueTime ==
    StepDone =>
        \A s \in Speakers, u \in Utterances, j \in Negatives, t \in Window :
            /\ step.seq_index[s][u][j][t] \in 0 .. call.length - 1
            /\ step.seq_index[s][u][j][t] # t

\* C1 witness: a pass over a window of 3 frames where one negative's time index
\* wrapped around to an earlier frame and another's is a later frame
C1_Witness ==
    /\ StepDone
    /\ call.length = 3
    /\ \E s \in Speakers, u \in Utterances, j \in Negatives, t \in Window :
           step.seq_index[s][u][j][t] < t
    /\ \E s \in Speakers, u \in Utterances, j \in Negatives, t \in Window :
           step.seq_index[s][u][j][t] > t

\* C2: for every horizon and every (speaker s, utterance, negative slot, time)
\* position, the negative latent vector is read from an (utterance, time)
\* coordinate of the same speaker s, whatever the utterance and time draws are.
C2_NegativesFromSameSpeaker ==
    StepDone =>
        \A s \in Speakers, u \in Utterances, j \in Negatives, t \in Window :
            LET c == step.coords[s][u][j][t]
            IN /\ c[1] = s
               /\ c[2] \in Utterances
               /\ step.z_negatives[s][u][j][t] = call.z[s][c[2]][c[3] + step.k]

\* C2 witness: a negative of the last speaker read from another utterance, in a
\* z whose vectors of other speakers all differ from it
C2_Witness ==
    /\ StepDone
    /\ \E u \in Utterances, j \in Negatives, t \in Window :
           /\ step.coords[NSpeakers - 1][u][j][t][2] # u
           /\ \A s2 \in Speakers \ {NSpeakers - 1}, u2 \in Utterances,
                 t2 \in 0 .. call.T - 1 :
                  call.z[s2][u2][t2] # step.z_negatives[NSpeakers - 1][u][j][t]

\* C8: for every horizon k and every (speaker, utterance, time t) position the
\* score tensor has n_negatives + 1 candidates, candidate 0 is the score of the
\* true shifted latent z[t+k] against the prediction at t, candidates
\* 1 .. n_negatives are the negatives, every label is 0, and the position counts
\* as accurate exactly when the true candidate's score is the first maximum.
C8_TrueCandidateIsClassZero ==
    StepDone =>
        \A s \in Speakers, u \in Utterances, t \in Window :
            LET r == s * NUtterances + u
                w == step.Wc[s][u][t]
            IN /\ DOMAIN step.f[r] = 0 .. NNegatives
               /\ step.f[r][0][t] = Dot(call.z[s][u][t + step.k], w, ZDim)
               /\ \A j \in Negatives :
                      step.f[r][j + 1][t] = Dot(step.z_negatives[s][u][j][t], w, ZDim)
               /\ step.labels[r][t] = 0
               /\ step.accuracy[r][t] <=>
                      \A cand \in 1 .. NNegatives : step.f[r][0][t] >= step.f[r][cand][t]

\* C8 witness: one pass with a position where the true score strictly wins, one
\* where it only ties a negative, and one where a negative wins
C8_Witness ==
    /\ StepDone
    /\ \E r \in Rows, t \in Window :
           \A cand \in 1 .. NNegatives : step.f[r][0][t] > step.f[r][cand][t]
    /\ \E r \in Rows, t \in Window :
           /\ step.accuracy[r][t]
           /\ \E cand \in 1 .. NNegatives : step.f[r][0][t] = step.f[r][cand][t]
    /\ \E r \in Rows, t \in Window : ~step.accuracy[r][t]

\* C9: in every forward call, after any earlier forward calls on the same
\* object (calls with another sequence length T included), the mask handed to
\* each horizon's predictor is the L x L causal mask of that call's own context
\* length: position i may attend to position j iff j <= i.
C9_MaskIsCausalForThisCall ==
    step.k > 0 =>
        /\ ~step.mask_arg.is_none
        /\ step.mask_arg.size = call.c_len
        /\ \A i \in 0 .. call.c_len - 1, j \in 0 .. call.c_len - 1 :
               (step.mask_arg.entries[i][j] = "0.0") <=> (j <= i)

\* the part of C9 that the code does keep: the first call on an object hands
\* the causal mask of its own length to the predictor
FirstCallMaskIsCausal ==
    (step.k > 0 /\ cpc_calls = 1) => C9_MaskIsCausalForThisCall

\* a predictor was handed a mask cached by an earlier call of another length
StaleMaskHandedOver ==
    /\ step.k > 0
    /\ cpc_calls = 2
    /\ step.mask_arg.size # call.c_len

\* C10: no forward call fails partially.  A VQEmbeddingEMA.forward call that
\* fails because C # G*D leaves codebook, usage_count and weight_sum as they
\* were, and a CPCLoss.forward call that fails because T - K < 2 leaves the cached
\* causal mask as it was before the call.
C10_FailedCallLeavesStateUnchanged ==
    /\ vq_op = "forward_raised" => Buffers = vq_prev
    /\ (cpc_result = "raised" /\ call.length < 2) => mask = call.mask_before

\* the quantizer's half of C10 alone
VQFailedCallLeavesBuffersUnchanged ==
    vq_op = "forward_raised" => Buffers = vq_prev

\* a too-short first call has raised and left a mask in the cache
ShortCallCachedMask ==
    /\ cpc_result = "raised"
    /\ call.length < 2
    /\ call.mask_before.is_none
    /\ ~mask.is_none

TypeCPC ==
    /\ cpc_pc \in {"idle", "loop"}
    /\ cpc_result \in {"none", "raised", "returned"}
    /\ cpc_calls \in 0 .. MaxCPCCalls
    /\ loop_k \in 0 .. NPredictionSteps + 1
    /\ Len(accuracies) <= NPredictionSteps
    /\ mask.is_none \in BOOLEAN

====
